---- MODULE Spec2Model ----
(***************************************************************************)
(* Model of the bitcoind test-fixture crate (src/src/lib.rs).              *)
(*                                                                         *)
(* A BitcoinD handle owns a child process (std::process::Child), an RPC    *)
(* client and a temporary working directory (tempfile::TempDir).  The      *)
(* model follows with_args line by line, then stop() and Drop, and models  *)
(* the spawned daemon and the file system as the environment the code      *)
(* talks to:                                                               *)
(*   - Child::kill forces a running child to exit and is a no-op (Ok or an *)
(*     error, depending on the toolchain) on a child that already exited;  *)
(*     dropping a Child neither kills nor waits for the process;           *)
(*   - dropping a TempDir removes the directory and all files under it;    *)
(*   - Client::new with Auth::CookieFile reads the cookie file, so it      *)
(*     fails while the file does not exist;                                *)
(*   - an RPC can only succeed while the daemon is running and serving;    *)
(*   - a panic unwinds and drops the locals (the default panic strategy).  *)
(***************************************************************************)
EXTENDS Integers, Sequences, FiniteSets, TLC

(* Bounds of the model. *)
NumPorts == 4
NumDirs == 2
MaxPolls == 2
MaxBlocks == 2

(* The two handles of test_p2p. *)
Fixtures == {"bitcoind", "other_bitcoind"}

Ports == 1..NumPorts
Dirs == 1..NumDirs

(* Option<SocketAddrV4> on LOCAL_IP: 0 is None, a port p is Some(127.0.0.1:p). *)
NoSocket == 0

(* enum P2P *)
P2PNo == [tag |-> "No", addr |-> NoSocket]
P2PYes == [tag |-> "Yes", addr |-> NoSocket]
P2PConnect(a) == [tag |-> "Connect", addr |-> a]
P2PValues == {P2PNo, P2PYes} \cup {P2PConnect(a) : a \in Ports}

(* Command-line arguments: a literal flag, or format!("<flag>{}", v). *)
Lit(s) == [flag |-> s, val |-> 0]
Fmt(s, v) == [flag |-> s, val |-> v]

DEFAULT_ARGS == <<Lit("-regtest"), Lit("-fallbackfee=0.0001")>>
(* Caller argument lists used by the tests: DEFAULT_ARGS, DEFAULT_ARGS + -txindex. *)
ArgChoices == {DEFAULT_ARGS, Append(DEFAULT_ARGS, Lit("-txindex"))}

NoCall == [p2p |-> P2PNo, view_stdout |-> FALSE, args |-> <<>>]
NoCmd == [args |-> <<>>, stdout |-> "unset", stderr |-> "unset"]
NoConfig == [datadir |-> 0, cookie_file |-> [dir |-> 0, file |-> ""],
             rpc_socket |-> NoSocket, p2p_socket |-> NoSocket]
NoRpc == [op |-> "none", after_stop |-> FALSE, result |-> "none"]

VARIABLES
  pc,             \* position of the caller in each handle's life
  call,           \* parameters of the with_args call
  outcome,        \* what with_args ended in: none, Ok, Io, Rpc, Panic
  fs,             \* the file system: the directories and files that exist
  work_dir,       \* the TempDir: none, held, dropped
  datadir,        \* path of the TempDir
  rpc_port,       \* local rpc_port
  p2p_args,       \* local p2p_args
  p2p_socket,     \* local p2p_socket
  cmd,            \* the Command that was spawned
  process,        \* the child process
  exit_status,    \* how the child process ended
  client,         \* URL path of the client held by the caller
  config,         \* BitcoinD.config
  spawn_attempts, \* number of Command::spawn calls
  polls,          \* iterations of the readiness loop started (counted up to MaxPolls)
  status_ok,      \* some poll obtained a successful get_blockchain_info
  wallet_calls,   \* number of create_wallet calls
  dir_removals,   \* number of times the TempDir was removed
  kill_result,    \* result of process.kill() in drop
  stop_result,    \* result of the last stop()
  stopped,        \* some stop() returned Ok
  waited,         \* process.wait() was called
  last_rpc,       \* last RPC issued through the handle's client
  conns,          \* peer connections between the daemons
  blocks          \* height of each daemon's chain

vars == <<pc, call, outcome, fs, work_dir, datadir, rpc_port, p2p_args, p2p_socket,
          cmd, process, exit_status, client, config, spawn_attempts, polls,
          status_ok, wallet_calls, dir_removals, kill_result, stop_result,
          stopped, waited, last_rpc, conns, blocks>>

(* Variables of the launch that a step of the handle's later life leaves alone. *)
launchVars == <<call, outcome, datadir, rpc_port, p2p_args, p2p_socket, cmd, config,
                spawn_attempts, polls, status_ok, wallet_calls, client>>
(* Variables of stop() and drop. *)
lifeVars == <<dir_removals, kill_result, stop_result, stopped, waited, last_rpc>>
(* The peer network and the chains. *)
netVars == <<conns, blocks>>

Init ==
  /\ pc = [f \in Fixtures |-> "Start"]
  /\ call = [f \in Fixtures |-> NoCall]
  /\ outcome = [f \in Fixtures |-> "none"]
  /\ fs = {}
  /\ work_dir = [f \in Fixtures |-> "none"]
  /\ datadir = [f \in Fixtures |-> 0]
  /\ rpc_port = [f \in Fixtures |-> 0]
  /\ p2p_args = [f \in Fixtures |-> <<>>]
  /\ p2p_socket = [f \in Fixtures |-> NoSocket]
  /\ cmd = [f \in Fixtures |-> NoCmd]
  /\ process = [f \in Fixtures |-> "none"]
  /\ exit_status = [f \in Fixtures |-> "none"]
  /\ client = [f \in Fixtures |-> "none"]
  /\ config = [f \in Fixtures |-> NoConfig]
  /\ spawn_attempts = [f \in Fixtures |-> 0]
  /\ polls = [f \in Fixtures |-> 0]
  /\ status_ok = [f \in Fixtures |-> FALSE]
  /\ wallet_calls = [f \in Fixtures |-> 0]
  /\ dir_removals = [f \in Fixtures |-> 0]
  /\ kill_result = [f \in Fixtures |-> "none"]
  /\ stop_result = [f \in Fixtures |-> "none"]
  /\ stopped = [f \in Fixtures |-> FALSE]
  /\ waited = [f \in Fixtures |-> FALSE]
  /\ last_rpc = [f \in Fixtures |-> NoRpc]
  /\ conns = {}
  /\ blocks = [f \in Fixtures |-> 0]

----
(* The file system. *)

DirEntry(d) == [dir |-> d, file |-> ""]
(* datadir.join("regtest").join(".cookie") *)
CookieFile(d) == [dir |-> d, file |-> "regtest/.cookie"]
DirExists(d) == DirEntry(d) \in fs
(* remove_dir_all: the directory and everything under it. *)
RemoveDirAll(files, d) == {e \in files : e.dir # d}

(* The child process. *)
Running == {"starting", "warmup", "ready", "stopping"}
Exited == {"exited", "reaped"}
(* States in which the daemon holds its listening ports. *)
Listening == {"warmup", "ready", "stopping"}

(* Ports bound by the daemons other than f's. *)
BoundPorts(f) ==
  UNION {{rpc_port[g], p2p_socket[g]} \ {NoSocket} :
           g \in {h \in Fixtures \ {f} : process[h] \in Listening}}
AllBoundPorts ==
  UNION {{rpc_port[g], p2p_socket[g]} \ {NoSocket} :
           g \in {h \in Fixtures : process[h] \in Listening}}

(* The caller is a single thread: it is inside at most one call. *)
AtRest == {"Start", "Ready", "Dropped", "Failed"}
ThreadIdle == \A g \in Fixtures : pc[g] \in AtRest

----
(* get_available_port: the OS assigns a port that is free at the instant of the
   bind; the listener is dropped on return, so nothing stays reserved. *)
get_available_port == Ports \ AllBoundPorts

(* An early return (?) or a panic inside with_args: the locals are dropped.
   Dropping the TempDir removes the directory; dropping the Child does nothing
   to the process. *)
DropLocals(f, how) ==
  /\ pc' = [pc EXCEPT ![f] = "Failed"]
  /\ outcome' = [outcome EXCEPT ![f] = how]
  /\ work_dir' = [work_dir EXCEPT ![f] = "dropped"]
  /\ fs' = RemoveDirAll(fs, datadir[f])
  /\ dir_removals' = [dir_removals EXCEPT ![f] = @ + 1]
  /\ client' = [client EXCEPT ![f] = "none"]

(* with_args, line 106-108: TempDir::new()? and the paths derived from it. *)
WithArgsTempDir(f, p2p, view_stdout, args) ==
  /\ pc[f] = "Start"
  /\ ThreadIdle
  /\ \/ /\ pc' = [pc EXCEPT ![f] = "Failed"]
        /\ outcome' = [outcome EXCEPT ![f] = "Io"]
        /\ UNCHANGED <<call, fs, work_dir, datadir>>
     \/ \E d \in Dirs :
          /\ ~DirExists(d)
          /\ fs' = fs \cup {DirEntry(d)}
          /\ work_dir' = [work_dir EXCEPT ![f] = "held"]
          /\ datadir' = [datadir EXCEPT ![f] = d]
          /\ call' = [call EXCEPT ![f] =
                        [p2p |-> p2p, view_stdout |-> view_stdout, args |-> args]]
          /\ pc' = [pc EXCEPT ![f] = "rpc_port"]
          /\ UNCHANGED outcome
  /\ UNCHANGED <<rpc_port, p2p_args, p2p_socket, cmd, process, exit_status, client,
                 config, spawn_attempts, polls, status_ok, wallet_calls>>
  /\ UNCHANGED lifeVars
  /\ UNCHANGED netVars

(* with_args, line 109-111: let rpc_port = get_available_port()? *)
WithArgsRpcPort(f) ==
  /\ pc[f] = "rpc_port"
  /\ \/ /\ DropLocals(f, "Io")
        /\ UNCHANGED rpc_port
     \/ \E p \in get_available_port :
          /\ rpc_port' = [rpc_port EXCEPT ![f] = p]
          /\ pc' = [pc EXCEPT ![f] = "p2p"]
          /\ UNCHANGED <<outcome, work_dir, fs, dir_removals, client>>
  /\ UNCHANGED <<call, datadir, p2p_args, p2p_socket, cmd, process, exit_status,
                 config, spawn_attempts, polls, status_ok, wallet_calls>>
  /\ UNCHANGED <<kill_result, stop_result, stopped, waited, last_rpc>>
  /\ UNCHANGED netVars

(* The match arms of line 112-129 once the p2p port, if any, is known. *)
P2PArgs(p2p, p2p_port) ==
  CASE p2p.tag = "No" -> <<Lit("-listen=0")>>
    [] p2p.tag = "Yes" -> <<Fmt("-port=", p2p_port)>>
    [] p2p.tag = "Connect" -> <<Fmt("-port=", p2p_port), Fmt("-connect=", p2p.addr)>>

(* with_args, line 112-129: the peer arguments and the p2p socket. *)
WithArgsP2P(f) ==
  /\ pc[f] = "p2p"
  /\ \/ /\ call[f].p2p.tag = "No"
        /\ p2p_args' = [p2p_args EXCEPT ![f] = P2PArgs(call[f].p2p, NoSocket)]
        /\ p2p_socket' = [p2p_socket EXCEPT ![f] = NoSocket]
        /\ pc' = [pc EXCEPT ![f] = "spawn"]
        /\ UNCHANGED <<outcome, work_dir, fs, dir_removals, client>>
     \/ /\ call[f].p2p.tag # "No"
        /\ \E p2p_port \in get_available_port :
             /\ p2p_args' = [p2p_args EXCEPT ![f] = P2PArgs(call[f].p2p, p2p_port)]
             /\ p2p_socket' = [p2p_socket EXCEPT ![f] = p2p_port]
        /\ pc' = [pc EXCEPT ![f] = "spawn"]
        /\ UNCHANGED <<outcome, work_dir, fs, dir_removals, client>>
     \/ /\ call[f].p2p.tag # "No"
        /\ DropLocals(f, "Io")
        /\ UNCHANGED <<p2p_args, p2p_socket>>
  /\ UNCHANGED <<call, datadir, rpc_port, cmd, process, exit_status,
                 config, spawn_attempts, polls, status_ok, wallet_calls>>
  /\ UNCHANGED <<kill_result, stop_result, stopped, waited, last_rpc>>
  /\ UNCHANGED netVars

(* Mutant of BuildCommand: the caller's arguments are passed before the peer
   arguments. *)
BuildCommand_CallerArgsFirst(f) ==
  [args |-> <<Fmt("-datadir=", datadir[f]), Fmt("-rpcport=", rpc_port[f])>>
              \o call[f].args \o p2p_args[f],
   stdout |-> IF call[f].view_stdout THEN "inherit" ELSE "null",
   stderr |-> "inherit"]

(* Mutant of BuildCommand: stderr is captured through a pipe. *)
BuildCommand_StderrPiped(f) ==
  [args |-> <<Fmt("-datadir=", datadir[f]), Fmt("-rpcport=", rpc_port[f])>>
              \o p2p_args[f] \o call[f].args,
   stdout |-> IF call[f].view_stdout THEN "inherit" ELSE "null",
   stderr |-> "piped"]

(* Line 130-134 and 146-150: the Command that is built.  Only stdout is
   configured, so stderr stays inherited and Child.stderr is None. *)
BuildCommand(f) ==
  [args |-> <<Fmt("-datadir=", datadir[f]), Fmt("-rpcport=", rpc_port[f])>>
              \o p2p_args[f] \o call[f].args,
   stdout |-> IF call[f].view_stdout THEN "inherit" ELSE "null",
   stderr |-> "inherit"]

(* Mutant of SpawnFails: the TempDir is leaked (into_path) before the return. *)
SpawnFails_KeepsDir(f) ==
  /\ pc' = [pc EXCEPT ![f] = "Failed"]
  /\ outcome' = [outcome EXCEPT ![f] = "Io"]
  /\ UNCHANGED <<work_dir, fs, dir_removals, client, cmd, process>>

(* Line 151, spawn()? fails: Err(Io) through From<std::io::Error>. *)
SpawnFails(f) ==
  /\ DropLocals(f, "Io")
  /\ UNCHANGED <<cmd, process>>

(* Line 151, spawn() succeeds: the child process starts. *)
SpawnSucceeds(f) ==
  /\ cmd' = [cmd EXCEPT ![f] = BuildCommand(f)]
  /\ process' = [process EXCEPT ![f] = "starting"]
  /\ pc' = [pc EXCEPT ![f] = "sleep"]
  /\ UNCHANGED <<outcome, work_dir, fs, dir_removals, client>>

(* with_args, line 130-151: build the command and spawn it, once. *)
WithArgsSpawn(f) ==
  /\ pc[f] = "spawn"
  /\ spawn_attempts' = [spawn_attempts EXCEPT ![f] = @ + 1]
  /\ \/ SpawnFails(f)
     \/ SpawnSucceeds(f)
  /\ UNCHANGED <<call, datadir, rpc_port, p2p_args, p2p_socket, exit_status,
                 config, polls, status_ok, wallet_calls>>
  /\ UNCHANGED <<kill_result, stop_result, stopped, waited, last_rpc>>
  /\ UNCHANGED netVars

----
(* The readiness loop, line 155-168. *)

(* What the caller's launch steps below leave alone. *)
loopFrame == <<call, datadir, rpc_port, p2p_args, p2p_socket, cmd, exit_status,
               spawn_attempts, kill_result, stop_result, stopped, waited, last_rpc,
               conns, blocks>>

(* Line 156-157: thread::sleep, then assert!(process.stderr.is_none()). *)
LoopSleep(f) ==
  /\ pc[f] = "sleep"
  /\ polls' = [polls EXCEPT ![f] = IF @ < MaxPolls THEN @ + 1 ELSE @]
  /\ IF cmd[f].stderr = "piped"
       THEN DropLocals(f, "Panic")
       ELSE /\ pc' = [pc EXCEPT ![f] = "client_new"]
            /\ UNCHANGED <<outcome, work_dir, fs, dir_removals, client>>
  /\ UNCHANGED <<process, config, status_ok, wallet_calls>>
  /\ UNCHANGED loopFrame

(* Mutant of LoopClientNew: the wallet is created as soon as a client could be
   constructed, without a status query. *)
LoopClientNew_SkipsStatus(f) ==
  /\ pc[f] = "client_new"
  /\ IF CookieFile(datadir[f]) \in fs
       THEN /\ client' = [client EXCEPT ![f] = "/"]
            /\ pc' = [pc EXCEPT ![f] = "create_wallet"]
       ELSE /\ pc' = [pc EXCEPT ![f] = "sleep"]
            /\ UNCHANGED client
  /\ UNCHANGED <<outcome, work_dir, fs, dir_removals, process, config, polls,
                 status_ok, wallet_calls>>
  /\ UNCHANGED loopFrame

(* Line 158-159: Client::new(rpc_url, Auth::CookieFile(cookie_file)) reads the
   cookie file; on Err the loop goes round. *)
LoopClientNew(f) ==
  /\ pc[f] = "client_new"
  /\ IF CookieFile(datadir[f]) \in fs
       THEN /\ client' = [client EXCEPT ![f] = "/"]
            /\ pc' = [pc EXCEPT ![f] = "status"]
       ELSE /\ pc' = [pc EXCEPT ![f] = "sleep"]
            /\ UNCHANGED client
  /\ UNCHANGED <<outcome, work_dir, fs, dir_removals, process, config, polls,
                 status_ok, wallet_calls>>
  /\ UNCHANGED loopFrame

(* Mutant of LoopStatus: the result of the status query is not looked at. *)
LoopStatus_Unchecked(f) ==
  /\ pc[f] = "status"
  /\ pc' = [pc EXCEPT ![f] = "create_wallet"]
  /\ UNCHANGED <<outcome, work_dir, fs, dir_removals, client, process, config, polls,
                 status_ok, wallet_calls>>
  /\ UNCHANGED loopFrame

(* Mutant of LoopStatus: a failed status query makes the loop look at the child
   (try_wait) and return Err when the child has exited. *)
LoopStatus_SeesExit(f) ==
  /\ pc[f] = "status"
  /\ IF process[f] = "ready"
       THEN /\ status_ok' = [status_ok EXCEPT ![f] = TRUE]
            /\ pc' = [pc EXCEPT ![f] = "create_wallet"]
            /\ UNCHANGED <<outcome, work_dir, fs, dir_removals, client>>
       ELSE IF process[f] \in Exited
              THEN /\ DropLocals(f, "Io")
                   /\ UNCHANGED status_ok
              ELSE /\ pc' = [pc EXCEPT ![f] = "sleep"]
                   /\ UNCHANGED <<outcome, work_dir, fs, dir_removals, client, status_ok>>
  /\ UNCHANGED <<process, config, polls, wallet_calls>>
  /\ UNCHANGED loopFrame

(* Line 160: client_base.get_blockchain_info().is_ok(); a daemon answers the
   status query once it is ready.  Any failure makes the loop go round. *)
LoopStatus(f) ==
  /\ pc[f] = "status"
  /\ IF process[f] = "ready"
       THEN /\ status_ok' = [status_ok EXCEPT ![f] = TRUE]
            /\ pc' = [pc EXCEPT ![f] = "create_wallet"]
       ELSE /\ pc' = [pc EXCEPT ![f] = "sleep"]
            /\ UNCHANGED status_ok
  /\ UNCHANGED <<outcome, work_dir, fs, dir_removals, client, process, config, polls,
                 wallet_calls>>
  /\ UNCHANGED loopFrame

(* Line 161-163, create_wallet returns Err (the daemon rejects the call, or has
   exited since the status query): unwrap() panics. *)
CreateWalletFails(f) ==
  DropLocals(f, "Panic")

(* Line 161-163, create_wallet returns Ok. *)
CreateWalletSucceeds(f) ==
  /\ process[f] = "ready"
  /\ pc' = [pc EXCEPT ![f] = "wallet_client"]
  /\ UNCHANGED <<outcome, work_dir, fs, dir_removals, client>>

(* Line 161-163: client_base.create_wallet("default", ...).unwrap() *)
LoopCreateWallet(f) ==
  /\ pc[f] = "create_wallet"
  /\ wallet_calls' = [wallet_calls EXCEPT ![f] = @ + 1]
  /\ \/ CreateWalletSucceeds(f)
     \/ CreateWalletFails(f)
  /\ UNCHANGED <<process, config, polls, status_ok>>
  /\ UNCHANGED loopFrame

(* Mutant of MakeConfig: cookie_file is set to the datadir itself. *)
MakeConfig_CookieIsDatadir(f) ==
  [datadir |-> datadir[f], cookie_file |-> DirEntry(datadir[f]),
   rpc_socket |-> rpc_port[f], p2p_socket |-> p2p_socket[f]]

(* Line 174-179: the Config of the handle. *)
MakeConfig(f) ==
  [datadir |-> datadir[f], cookie_file |-> CookieFile(datadir[f]),
   rpc_socket |-> rpc_port[f], p2p_socket |-> p2p_socket[f]]

(* Line 164-165 and 170-180: break with the wallet-scoped client (unwrap panics
   if the cookie file cannot be read any more), then Ok(BitcoinD {..}). *)
LoopWalletClient(f) ==
  /\ pc[f] = "wallet_client"
  /\ \/ /\ CookieFile(datadir[f]) \in fs
        /\ client' = [client EXCEPT ![f] = "/wallet/default"]
        /\ config' = [config EXCEPT ![f] = MakeConfig(f)]
        /\ outcome' = [outcome EXCEPT ![f] = "Ok"]
        /\ pc' = [pc EXCEPT ![f] = "Ready"]
        /\ UNCHANGED <<work_dir, fs, dir_removals>>
     \/ /\ CookieFile(datadir[f]) \notin fs
        /\ DropLocals(f, "Panic")
        /\ UNCHANGED config
  /\ UNCHANGED <<process, polls, status_ok, wallet_calls>>
  /\ UNCHANGED loopFrame

(* One step of a with_args call that has started. *)
WithArgsStep(f) ==
  \/ WithArgsRpcPort(f)
  \/ WithArgsP2P(f)
  \/ WithArgsSpawn(f)
  \/ LoopSleep(f)
  \/ LoopClientNew(f)
  \/ LoopStatus(f)
  \/ LoopCreateWallet(f)
  \/ LoopWalletClient(f)

----
(* The spawned daemon (the executable of line 146). *)

daemonFrame == <<pc, call, outcome, work_dir, datadir, rpc_port, p2p_args, p2p_socket,
                 cmd, client, config, spawn_attempts, polls, status_ok, wallet_calls,
                 dir_removals, kill_result, stop_result, stopped, waited, last_rpc>>

(* The connections that remain when f's daemon goes away. *)
DropConns(f) == {c \in conns : c.src # f /\ c.dst # f}

(* The daemon binds -rpcport and -port and writes regtest/.cookie under -datadir;
   it gives up when a port is taken. *)
DaemonInit(f) ==
  /\ process[f] = "starting"
  /\ IF /\ rpc_port[f] \notin BoundPorts(f)
        /\ p2p_socket[f] \notin BoundPorts(f)
        /\ p2p_socket[f] # rpc_port[f]
        /\ DirExists(datadir[f])
       THEN /\ process' = [process EXCEPT ![f] = "warmup"]
            /\ fs' = fs \cup {CookieFile(datadir[f])}
            /\ UNCHANGED exit_status
       ELSE /\ process' = [process EXCEPT ![f] = "exited"]
            /\ exit_status' = [exit_status EXCEPT ![f] = "failure"]
            /\ UNCHANGED fs
  /\ UNCHANGED daemonFrame
  /\ UNCHANGED netVars

(* The daemon finishes loading and answers RPCs. *)
DaemonReady(f) ==
  /\ process[f] = "warmup"
  /\ process' = [process EXCEPT ![f] = "ready"]
  /\ UNCHANGED <<fs, exit_status>>
  /\ UNCHANGED daemonFrame
  /\ UNCHANGED netVars

(* The daemon exits on its own; an orderly exit deletes the cookie file. *)
DaemonExit(f, orderly) ==
  /\ process[f] \in Running
  /\ process[f] # "stopping"
  /\ process' = [process EXCEPT ![f] = "exited"]
  /\ exit_status' = [exit_status EXCEPT ![f] = "failure"]
  /\ fs' = IF orderly THEN fs \ {CookieFile(datadir[f])} ELSE fs
  /\ conns' = DropConns(f)
  /\ UNCHANGED blocks
  /\ UNCHANGED daemonFrame

(* The daemon completes the shutdown the stop command asked for. *)
DaemonShutdown(f) ==
  /\ process[f] = "stopping"
  /\ process' = [process EXCEPT ![f] = "exited"]
  /\ exit_status' = [exit_status EXCEPT ![f] = "success"]
  /\ fs' = fs \ {CookieFile(datadir[f])}
  /\ conns' = DropConns(f)
  /\ UNCHANGED blocks
  /\ UNCHANGED daemonFrame

(* The daemon given -connect=<addr> opens a connection to the daemon that
   listens on addr; it does so on its own, at some time after it has bound its
   ports (line 121-128 only pass the argument). *)
DaemonConnect(g) ==
  /\ process[g] \in {"warmup", "ready"}
  /\ \E f \in Fixtures \ {g} :
       /\ process[f] \in {"warmup", "ready"}
       /\ p2p_socket[f] # NoSocket
       /\ \E i \in 1..Len(cmd[g].args) : cmd[g].args[i] = Fmt("-connect=", p2p_socket[f])
       /\ [src |-> g, dst |-> f] \notin conns
       /\ conns' = conns \cup {[src |-> g, dst |-> f]}
  /\ UNCHANGED <<process, exit_status, fs, blocks>>
  /\ UNCHANGED daemonFrame

(* A daemon takes over the longer chain of a connected peer. *)
Sync(f) ==
  /\ process[f] \in Listening
  /\ \E c \in conns :
       \E g \in {c.src, c.dst} \ {f} :
         /\ f \in {c.src, c.dst}
         /\ blocks[g] > blocks[f]
         /\ blocks' = [blocks EXCEPT ![f] = blocks[g]]
  /\ UNCHANGED <<process, exit_status, fs, conns>>
  /\ UNCHANGED daemonFrame

(* What the daemons do among themselves. *)
NetStep(f) ==
  \/ DaemonConnect(f)
  \/ Sync(f)

DaemonStep(f) ==
  \/ DaemonInit(f)
  \/ DaemonReady(f)
  \/ \E orderly \in BOOLEAN : DaemonExit(f, orderly)
  \/ DaemonShutdown(f)

----
(* The life of the handle after with_args returned Ok. *)

(* While the handle exists: the caller holds it and has not dropped it. *)
HandleAlive(f) == pc[f] \in {"Ready", "stop_wait"}

(* Whether the daemon can answer an RPC sent by the handle's client. *)
Serving(f) == process[f] \in {"ready", "stopping"}

(* Option<P2P>::None *)
NoP2P == [tag |-> "None", addr |-> NoSocket]

(* Mutant of p2p_connect: the rpc socket is handed out as the peer address. *)
p2p_connect_RpcSocket(f) == P2PConnect(config[f].rpc_socket)

(* p2p_connect, line 189-191: self.config.p2p_socket.map(P2P::Connect) *)
p2p_connect(f) ==
  IF config[f].p2p_socket = NoSocket THEN NoP2P ELSE P2PConnect(config[f].p2p_socket)

(* Any RPC issued through bitcoind.client (get_blockchain_info, get_peer_info,
   ... as in the tests, line 247-251): it can succeed only while the daemon is
   serving, and it can always fail. *)
ClientCall(f) ==
  /\ pc[f] = "Ready"
  /\ ThreadIdle
  /\ \E ok \in BOOLEAN :
       /\ ok => Serving(f)
       /\ last_rpc' = [last_rpc EXCEPT ![f] =
                         [op |-> "call", after_stop |-> stopped[f],
                          result |-> IF ok THEN "Ok" ELSE "Err"]]
  /\ UNCHANGED <<pc, fs, work_dir, process, exit_status, dir_removals, kill_result,
                 stop_result, stopped, waited>>
  /\ UNCHANGED launchVars
  /\ UNCHANGED netVars

(* get_peer_info().len() as in test_p2p, line 274 and 277-278. *)
peers(f) == Cardinality({c \in conns : c.src = f \/ c.dst = f})

(* generate_to_address(1, &address) as in test_bitcoind, line 249-250: the
   daemon mines one block on top of its chain. *)
Mine(f) ==
  /\ pc[f] = "Ready"
  /\ ThreadIdle
  /\ process[f] = "ready"
  /\ blocks[f] < MaxBlocks
  /\ blocks' = [blocks EXCEPT ![f] = @ + 1]
  /\ last_rpc' = [last_rpc EXCEPT ![f] =
                    [op |-> "generate", after_stop |-> stopped[f], result |-> "Ok"]]
  /\ UNCHANGED <<pc, fs, work_dir, process, exit_status, dir_removals, kill_result,
                 stop_result, stopped, waited, conns>>
  /\ UNCHANGED launchVars

(* Mutant of StopRpcFails: the error of the stop command is discarded and
   stop() goes on to wait. *)
StopRpcFails_StillWaits(f) ==
  /\ last_rpc' = [last_rpc EXCEPT ![f] =
                    [op |-> "stop", after_stop |-> stopped[f], result |-> "Err"]]
  /\ pc' = [pc EXCEPT ![f] = "stop_wait"]
  /\ UNCHANGED <<stop_result, process>>

(* stop(), line 195, self.client.stop() returns Err: Err(Rpc) through
   From<bitcoincore_rpc::Error>, and line 196 is not reached. *)
StopRpcFails(f) ==
  /\ last_rpc' = [last_rpc EXCEPT ![f] =
                    [op |-> "stop", after_stop |-> stopped[f], result |-> "Err"]]
  /\ stop_result' = [stop_result EXCEPT ![f] = "Rpc"]
  /\ UNCHANGED <<pc, process>>

(* stop(), line 195, self.client.stop() returns Ok: the daemon starts to shut down. *)
StopRpcSucceeds(f) ==
  /\ Serving(f)
  /\ last_rpc' = [last_rpc EXCEPT ![f] =
                    [op |-> "stop", after_stop |-> stopped[f], result |-> "Ok"]]
  /\ process' = [process EXCEPT ![f] = "stopping"]
  /\ pc' = [pc EXCEPT ![f] = "stop_wait"]
  /\ UNCHANGED stop_result

(* stop(), line 195: self.client.stop()? *)
StopRpc(f) ==
  /\ pc[f] = "Ready"
  /\ ThreadIdle
  /\ \/ StopRpcSucceeds(f)
     \/ StopRpcFails(f)
  /\ UNCHANGED <<fs, work_dir, exit_status, dir_removals, kill_result, stopped, waited>>
  /\ UNCHANGED launchVars
  /\ UNCHANGED netVars

(* Mutant of WaitReturns: try_wait in place of wait, Ok without blocking. *)
WaitReturns_NoBlock(f) ==
  /\ process' = [process EXCEPT ![f] = IF @ \in Exited THEN "reaped" ELSE @]
  /\ stop_result' = [stop_result EXCEPT ![f] = "Ok"]
  /\ stopped' = [stopped EXCEPT ![f] = TRUE]

(* stop(), line 196, wait() returns the exit status: only once the child has
   exited; until then the caller is blocked. *)
WaitReturns(f) ==
  /\ process[f] \in Exited
  /\ process' = [process EXCEPT ![f] = "reaped"]
  /\ stop_result' = [stop_result EXCEPT ![f] = "Ok"]
  /\ stopped' = [stopped EXCEPT ![f] = TRUE]

(* stop(), line 196, wait() fails: Err(Io). *)
WaitFails(f) ==
  /\ stop_result' = [stop_result EXCEPT ![f] = "Io"]
  /\ UNCHANGED <<process, stopped>>

(* Mutant of StopWait: stop() also removes the working directory. *)
StopWait_RemovesDir(f) ==
  /\ pc[f] = "stop_wait"
  /\ waited' = [waited EXCEPT ![f] = TRUE]
  /\ \/ WaitReturns(f)
     \/ WaitFails(f)
  /\ pc' = [pc EXCEPT ![f] = "Ready"]
  /\ fs' = RemoveDirAll(fs, datadir[f])
  /\ dir_removals' = [dir_removals EXCEPT ![f] = @ + 1]
  /\ UNCHANGED <<work_dir, exit_status, kill_result, last_rpc>>
  /\ UNCHANGED launchVars
  /\ UNCHANGED netVars

(* stop(), line 196: Ok(self.process.wait()?) *)
StopWait(f) ==
  /\ pc[f] = "stop_wait"
  /\ waited' = [waited EXCEPT ![f] = TRUE]
  /\ \/ WaitReturns(f)
     \/ WaitFails(f)
  /\ pc' = [pc EXCEPT ![f] = "Ready"]
  /\ UNCHANGED <<fs, work_dir, exit_status, dir_removals, kill_result, last_rpc>>
  /\ UNCHANGED launchVars
  /\ UNCHANGED netVars

(* Mutant of Kill: drop does not send the terminate request. *)
Kill_NotSent(f) ==
  /\ UNCHANGED <<process, exit_status, conns>>
  /\ kill_result' = [kill_result EXCEPT ![f] = "Err"]

(* Line 202: let _ = self.process.kill().  A running child is forced to exit; a
   child that has exited is left as it is, and on a child already waited for
   the call returns Ok or an error depending on the toolchain.  The result is
   discarded. *)
Kill(f) ==
  IF process[f] \in Running
    THEN /\ process' = [process EXCEPT ![f] = "exited"]
         /\ exit_status' = [exit_status EXCEPT ![f] = "killed"]
         /\ kill_result' = [kill_result EXCEPT ![f] = "Ok"]
         /\ conns' = DropConns(f)
    ELSE /\ UNCHANGED <<process, exit_status, conns>>
         /\ \E r \in {"Ok", "Err"} :
              /\ r = "Err" => process[f] = "reaped"
              /\ kill_result' = [kill_result EXCEPT ![f] = r]

(* Mutant of DropFields: the drop removes the parent of the temporary
   directories. *)
DropFields_RemovesTempRoot(f) ==
  /\ work_dir' = [work_dir EXCEPT ![f] = "dropped"]
  /\ fs' = {}
  /\ dir_removals' = [dir_removals EXCEPT ![f] = @ + 1]

(* The fields are dropped after Drop::drop: the TempDir removes the directory. *)
DropFields(f) ==
  /\ work_dir' = [work_dir EXCEPT ![f] = "dropped"]
  /\ fs' = RemoveDirAll(fs, datadir[f])
  /\ dir_removals' = [dir_removals EXCEPT ![f] = @ + 1]

(* Mutant of DropBitcoinD: self.process.kill().unwrap(), which panics in drop
   when kill returns an error. *)
DropBitcoinD_KillUnwrap(f) ==
  /\ pc[f] = "Ready"
  /\ ThreadIdle
  /\ Kill(f)
  /\ DropFields(f)
  /\ pc' = [pc EXCEPT ![f] = IF kill_result'[f] = "Err" THEN "DropPanicked" ELSE "Dropped"]
  /\ UNCHANGED <<stop_result, stopped, waited, last_rpc, blocks>>
  /\ UNCHANGED launchVars

(* impl Drop for BitcoinD, line 200-204, and the drop of the fields. *)
DropBitcoinD(f) ==
  /\ pc[f] = "Ready"
  /\ ThreadIdle
  /\ Kill(f)
  /\ DropFields(f)
  /\ pc' = [pc EXCEPT ![f] = "Dropped"]
  /\ UNCHANGED <<stop_result, stopped, waited, last_rpc, blocks>>
  /\ UNCHANGED launchVars

(* One step of the caller on a handle. *)
HandleStep(f) ==
  \/ ClientCall(f)
  \/ StopRpc(f)
  \/ StopWait(f)
  \/ DropBitcoinD(f)

----
(* The caller of test_bitcoind: one fixture, launched with any parameters. *)
Launch(f) ==
  \E p2p \in P2PValues, view_stdout \in BOOLEAN, args \in ArgChoices :
    WithArgsTempDir(f, p2p, view_stdout, args)

Next ==
  \/ Launch("bitcoind")
  \/ WithArgsStep("bitcoind")
  \/ HandleStep("bitcoind")
  \/ DaemonStep("bitcoind")

Spec == Init /\ [][Next]_vars

(* The caller thread keeps running a call it is in: the launch is one
   synchronous call whose loop has no exit but success or a panic. *)
FairSpec == Spec /\ WF_vars(WithArgsStep("bitcoind"))

(* The caller of test_p2p (line 270-280) and of test_bitcoind (line 243-253) in
   one process: bitcoind is launched with or without peer networking;
   other_bitcoind is launched once bitcoind is there, connected to it when
   bitcoind.p2p_connect() is Some, or on its own. *)
LaunchFirst ==
  \E p2p \in {P2PNo, P2PYes} :
    WithArgsTempDir("bitcoind", p2p, FALSE, DEFAULT_ARGS)

LaunchOther ==
  /\ pc["bitcoind"] = "Ready"
  /\ \E p2p \in {P2PNo, p2p_connect("bitcoind")} \ {NoP2P} :
       WithArgsTempDir("other_bitcoind", p2p, FALSE, DEFAULT_ARGS)

(* The ports in the order in which the two launches obtain them. *)
PortSeq ==
  <<rpc_port["bitcoind"], p2p_socket["bitcoind"],
    rpc_port["other_bitcoind"], p2p_socket["other_bitcoind"]>>

(* The directory names in the order in which the two launches obtain them. *)
DirSeq == <<datadir["bitcoind"], datadir["other_bitcoind"]>>

(* Port numbers and directory names carry no meaning, so of all the assignments
   that differ only by a renaming one is kept: a number that was not handed out
   before is the lowest such number. *)
Canonical(seq) ==
  \A i \in 1..Len(seq) :
    \A p \in 1..(seq[i] - 1) : \E j \in 1..(i - 1) : seq[j] = p
CanonicalPorts == Canonical(PortSeq)
CanonicalDirs == Canonical(DirSeq)

(* What the tests do with a handle besides reading from its client: they mine
   (line 250), and the handle is stopped or dropped. *)
TestStep(f) ==
  \/ Mine(f)
  \/ StopRpc(f)
  \/ StopWait(f)
  \/ DropBitcoinD(f)

NextP2P ==
  \/ LaunchFirst /\ CanonicalDirs'
  \/ LaunchOther /\ CanonicalDirs'
  \/ \E f \in Fixtures : WithArgsStep(f) /\ CanonicalPorts'
  \/ \E f \in Fixtures : TestStep(f)
  \/ \E f \in Fixtures : DaemonStep(f)
  \/ \E f \in Fixtures : NetStep(f)

SpecP2P == Init /\ [][NextP2P]_vars

----
(* The claims. *)

(* C1: once a handle is dropped, from whatever state it was in, its working
   directory does not exist any more and its child process is not running. *)
C1_DroppedReleasesAll ==
  \A f \in Fixtures :
    pc[f] = "Dropped" => /\ ~DirExists(datadir[f])
                         /\ CookieFile(datadir[f]) \notin fs
                         /\ process[f] \notin Running

(* A handle dropped after a failed stop(), whose daemon was still running and
   was killed by the drop. *)
C1_Witness ==
  \E f \in Fixtures :
    /\ pc[f] = "Dropped"
    /\ stop_result[f] = "Rpc"
    /\ exit_status[f] = "killed"

(* C2: every failed with_args leaves no handle, no running child process and no
   working directory behind. *)
C2_FailureLeavesNothing ==
  \A f \in Fixtures :
    pc[f] = "Failed" => /\ config[f] = NoConfig
                        /\ process[f] \notin Running
                        /\ ~DirExists(datadir[f])

(* C3: a create_wallet call that fails makes with_args return Err(Rpc): the step
   that leaves line 161-163 without success ends the call with that error. *)
C3_WalletFailureIsRpcErr ==
  [][\A f \in Fixtures :
       (pc[f] = "create_wallet" /\ pc'[f] # "wallet_client")
         => (pc'[f] = "Failed" /\ outcome'[f] = "Rpc")]_vars

(* C4: with_args ends in Ok with a ready handle or in Err(Io) or Err(Rpc), and in
   nothing else. *)
C4_OkOrErrOnly ==
  \A f \in Fixtures :
    /\ outcome[f] \in {"none", "Ok", "Io", "Rpc"}
    /\ pc[f] = "Failed" => outcome[f] \in {"Io", "Rpc"}
    /\ outcome[f] = "Ok" => status_ok[f]

C6_SpawnFailure ==
  \A f \in Fixtures :
    (spawn_attempts[f] >= 1 /\ process[f] = "none")
      => /\ pc[f] = "Failed"
         /\ outcome[f] = "Io"
         /\ spawn_attempts[f] = 1
         /\ polls[f] = 0
         /\ ~status_ok[f]
         /\ wallet_calls[f] = 0
         /\ work_dir[f] = "dropped"
         /\ dir_removals[f] = 1
         /\ ~DirExists(datadir[f])

(* A launch with peer networking whose spawn failed. *)
C6_Witness ==
  \E f \in Fixtures :
    /\ spawn_attempts[f] = 1
    /\ process[f] = "none"
    /\ outcome[f] = "Io"
    /\ call[f].p2p.tag = "Connect"

(* C7: stop() waits only after the stop command was accepted, returns Ok only
   once the child has exited, returns Err(Rpc) without waiting and without
   touching the process when the stop command fails, and Err(Io) when the wait
   fails. *)
C7_StopThenWait ==
  /\ [](\A f \in Fixtures :
          /\ pc[f] = "stop_wait" => (last_rpc[f].op = "stop" /\ last_rpc[f].result = "Ok")
          /\ waited[f] => process[f] \in ({"stopping"} \cup Exited)
          /\ stop_result[f] = "Ok" => (waited[f] /\ process[f] \in Exited))
  /\ [][\A f \in Fixtures :
          /\ (pc[f] = "stop_wait" /\ pc'[f] = "Ready")
               => \/ stop_result'[f] = "Ok" /\ process[f] \in Exited
                  \/ stop_result'[f] = "Io" /\ process'[f] = process[f]
          /\ (/\ pc[f] = "Ready"
              /\ last_rpc'[f].op = "stop"
              /\ last_rpc'[f].result = "Err"
              /\ <<last_rpc'[f], stop_result'[f]>> # <<last_rpc[f], stop_result[f]>>)
               => /\ stop_result'[f] = "Rpc"
                  /\ pc'[f] = "Ready"
                  /\ process'[f] = process[f]
                  /\ waited'[f] = waited[f]]_vars

(* stop() returned Ok for a daemon that shut down on the stop command. *)
C7_Witness ==
  \E f \in Fixtures :
    /\ pc[f] = "Ready"
    /\ stop_result[f] = "Ok"
    /\ process[f] = "reaped"
    /\ exit_status[f] = "success"

(* C8: after stop() has returned Ok, every RPC issued through the handle, a second
   stop() included, returns an error. *)
C8_NoRpcAfterStop ==
  \A f \in Fixtures :
    /\ last_rpc[f].after_stop => last_rpc[f].result = "Err"
    /\ stopped[f] => pc[f] # "stop_wait"

(* A second stop() after a successful one, rejected. *)
C8_Witness ==
  \E f \in Fixtures :
    /\ stopped[f]
    /\ last_rpc[f] = [op |-> "stop", after_stop |-> TRUE, result |-> "Err"]
    /\ stop_result[f] = "Rpc"

(* C9: dropping a handle always issues the kill and removes the directory,
   whether or not stop() was called, and completes; the kill leaves a process
   that has already exited as it is. *)
C9_DropAlwaysCompletes ==
  /\ [](\A f \in Fixtures :
          /\ (outcome[f] = "Ok" /\ work_dir[f] = "dropped")
               => /\ pc[f] = "Dropped"
                  /\ kill_result[f] # "none"
                  /\ ~DirExists(datadir[f])
          /\ (outcome[f] = "Ok" /\ pc[f] \notin {"Ready", "stop_wait"})
               => pc[f] = "Dropped")
  /\ [][\A f \in Fixtures :
          (pc[f] = "Ready" /\ pc'[f] # "Ready" /\ pc'[f] # "stop_wait"
             /\ process[f] \in Exited)
            => /\ process'[f] = process[f]
               /\ exit_status'[f] = exit_status[f]]_vars

(* A handle dropped after a successful stop(): the kill on the child that was
   already waited for returned an error, which the drop discarded. *)
C9_Witness ==
  \E f \in Fixtures :
    /\ pc[f] = "Dropped"
    /\ stopped[f]
    /\ kill_result[f] = "Err"
    /\ process[f] = "reaped"

(* C10 as stated: while the handle is alive, stop() included, its child process
   is running and its working directory exists. *)
C10_AliveMeansRunning ==
  \A f \in Fixtures :
    HandleAlive(f) => /\ process[f] \in Running
                      /\ DirExists(datadir[f])
                      /\ dir_removals[f] = 0

(* C10 amended: while the handle is alive it has exactly one child process, which
   is running or has exited (it has exited once stop() returned Ok), and one
   existing working directory; the directory is removed exactly once, at the
   drop, where the process stops running too, and never by stop(). *)
C10_OneProcessOneDir ==
  \A f \in Fixtures :
    /\ HandleAlive(f) => /\ process[f] \in (Running \cup Exited)
                         /\ spawn_attempts[f] = 1
                         /\ work_dir[f] = "held"
                         /\ DirExists(datadir[f])
                         /\ dir_removals[f] = 0
    /\ (HandleAlive(f) /\ stopped[f]) => process[f] = "reaped"
    /\ pc[f] = "Dropped" => /\ dir_removals[f] = 1
                            /\ ~DirExists(datadir[f])
                            /\ process[f] \notin Running

(* A live handle after a successful stop(): the process has exited and the
   directory is still there. *)
C10_Witness ==
  \E f \in Fixtures :
    /\ pc[f] = "Ready"
    /\ stopped[f]
    /\ process[f] = "reaped"
    /\ DirExists(datadir[f])

(* C11: the ports handed out by successive get_available_port calls differ; in
   a launch with peer networking, the p2p port differs from the rpc port. *)
C11_PortsDistinct ==
  \A f \in Fixtures :
    p2p_socket[f] # NoSocket => p2p_socket[f] # rpc_port[f]

(* C12: after a successful launch config.p2p_socket is None exactly for P2P::No,
   p2p_connect() is Some(Connect(config.p2p_socket)) when the socket is present,
   the port the daemon was given as -port, and None otherwise; and the config
   does not change any more. *)
C12_P2PSocketAndConnect ==
  /\ [](\A f \in Fixtures :
          outcome[f] = "Ok"
            => /\ config[f].p2p_socket = NoSocket <=> call[f].p2p.tag = "No"
               /\ config[f].p2p_socket = NoSocket => p2p_connect(f) = NoP2P
               /\ config[f].p2p_socket # NoSocket
                    => /\ p2p_connect(f) = P2PConnect(config[f].p2p_socket)
                       /\ \E i \in 1..Len(cmd[f].args) :
                            cmd[f].args[i] = Fmt("-port=", p2p_connect(f).addr))
  /\ [][\A f \in Fixtures : outcome[f] = "Ok" => config'[f] = config[f]]_vars

(* A handle launched with P2P::Yes whose p2p_connect() is Some(Connect(..)), still
   so after the handle was dropped. *)
C12_Witness ==
  \E f \in Fixtures :
    /\ outcome[f] = "Ok"
    /\ call[f].p2p.tag = "Yes"
    /\ p2p_connect(f).tag = "Connect"
    /\ pc[f] = "Dropped"

C14_ArgumentOrder ==
  \A f \in Fixtures :
    /\ p2p_socket[f] # NoSocket => call[f].p2p.tag # "No"
    /\ process[f] # "none"
         => /\ rpc_port[f] \in Ports
            /\ call[f].p2p.tag # "No" <=> p2p_socket[f] \in Ports
            /\ cmd[f].args =
                 <<Fmt("-datadir=", datadir[f]), Fmt("-rpcport=", rpc_port[f])>>
                   \o (CASE call[f].p2p.tag = "No" -> <<Lit("-listen=0")>>
                         [] call[f].p2p.tag = "Yes" -> <<Fmt("-port=", p2p_socket[f])>>
                         [] call[f].p2p.tag = "Connect" ->
                              <<Fmt("-port=", p2p_socket[f]),
                                Fmt("-connect=", call[f].p2p.addr)>>)
                   \o call[f].args

(* A daemon spawned with P2P::Connect and three caller arguments. *)
C14_Witness ==
  \E f \in Fixtures :
    /\ process[f] # "none"
    /\ call[f].p2p.tag = "Connect"
    /\ Len(call[f].args) = 3
    /\ Len(cmd[f].args) = 7

(* C17: within one launch the working directory and the ports come before the
   spawn, the spawn before the first poll, a poll before the successful status
   query, that before create_wallet, that before the wallet-scoped client, that
   before the return; create_wallet is called once, and only from a status query
   that succeeded in the same iteration. *)
C17_LaunchOrder ==
  /\ [](\A f \in Fixtures :
          /\ process[f] # "none"
               => /\ work_dir[f] # "none"
                  /\ rpc_port[f] \in Ports
                  /\ call[f].p2p.tag # "No" => p2p_socket[f] \in Ports
                  /\ spawn_attempts[f] = 1
          /\ polls[f] >= 1 => process[f] # "none"
          /\ status_ok[f] => polls[f] >= 1
          /\ wallet_calls[f] >= 1 => status_ok[f]
          /\ wallet_calls[f] <= 1
          /\ client[f] = "/wallet/default" => wallet_calls[f] = 1
          /\ outcome[f] = "Ok" => wallet_calls[f] = 1 /\ status_ok[f])
  /\ [][\A f \in Fixtures :
          /\ (pc'[f] = "create_wallet" /\ pc[f] # "create_wallet")
               => pc[f] = "status" /\ process[f] = "ready" /\ client[f] = "/"
          /\ wallet_calls'[f] # wallet_calls[f]
               => pc[f] = "create_wallet" /\ wallet_calls[f] = 0 /\ status_ok[f]
          /\ (outcome'[f] = "Ok" /\ outcome[f] # "Ok")
               => /\ pc[f] = "wallet_client"
                  /\ client'[f] = "/wallet/default"]_vars

(* A launch with peer networking that returned after several polls. *)
C17_Witness ==
  \E f \in Fixtures :
    /\ outcome[f] = "Ok"
    /\ pc[f] = "Ready"
    /\ polls[f] = MaxPolls
    /\ wallet_calls[f] = 1
    /\ client[f] = "/wallet/default"
    /\ call[f].p2p.tag = "Yes"

(* C18: the readiness loop goes round only when the poll failed because the
   daemon is not ready yet. *)
C18_RetryOnlyWhenNotYetReady ==
  [][\A f \in Fixtures :
       (pc[f] \in {"client_new", "status"} /\ pc'[f] = "sleep")
         => process[f] \in {"starting", "warmup"}]_vars

(* C19: the assertion of the readiness loop never fails: stderr is never piped
   and stdout is inherited or discarded as view_stdout says, so a panic of
   with_args comes from the wallet calls only. *)
C19_StderrNeverPiped ==
  \A f \in Fixtures :
    /\ cmd[f].stderr # "piped"
    /\ process[f] # "none"
         => /\ cmd[f].stderr = "inherit"
            /\ cmd[f].stdout = IF call[f].view_stdout THEN "inherit" ELSE "null"
    /\ outcome[f] = "Panic" => wallet_calls[f] = 1
    /\ polls[f] >= 1 /\ wallet_calls[f] = 0 => outcome[f] = "none"

(* The assertion has just passed again, with stdout shown and P2P::Connect. *)
C19_Witness ==
  \E f \in Fixtures :
    /\ pc[f] = "client_new"
    /\ polls[f] = MaxPolls
    /\ call[f].view_stdout
    /\ call[f].p2p.tag = "Connect"

(* The daemon of f's launch has exited before any status query was answered and
   with_args is in its readiness loop. *)
ExitedBeforeReady(f) ==
  /\ pc[f] \in {"sleep", "client_new", "status"}
  /\ process[f] \in Exited
  /\ ~status_ok[f]

(* C20: when the daemon exits before answering a status query, with_args stays
   in the readiness loop without a result, holding the child and the TempDir,
   and polls again and again. *)
C20_LoopNeverObservesExit ==
  /\ [][\A f \in Fixtures :
          ExitedBeforeReady(f)
            => /\ pc'[f] \in {"sleep", "client_new", "status"}
               /\ outcome'[f] = "none"
               /\ process'[f] = "exited"
               /\ work_dir'[f] = "held"
               /\ DirEntry(datadir'[f]) \in fs'
               /\ wallet_calls'[f] = 0]_vars
  /\ \A f \in Fixtures :
       /\ ExitedBeforeReady(f) ~> (ExitedBeforeReady(f) /\ pc[f] = "sleep")
       /\ ExitedBeforeReady(f) ~> (ExitedBeforeReady(f) /\ pc[f] = "client_new")

(* The daemon was given the same port twice and gave up; with_args keeps polling. *)
C20_Witness ==
  \E f \in Fixtures :
    /\ ExitedBeforeReady(f)
    /\ rpc_port[f] = p2p_socket[f]
    /\ polls[f] = MaxPolls
    /\ pc[f] = "client_new"

(* C15: a fixture launched with P2P::Yes has no peer before the other fixture
   is launched, and once the other fixture's launch with p2p_connect() of the
   first has returned, each of the two has one peer. *)
C15_OnePeerEachAfterLaunch ==
  \A a \in Fixtures : \A b \in Fixtures \ {a} :
    /\ (pc[a] = "Ready" /\ call[a].p2p = P2PYes /\ pc[b] = "Start") => peers(a) = 0
    /\ (/\ pc[a] = "Ready" /\ call[a].p2p = P2PYes /\ process[a] = "ready"
        /\ pc[b] = "Ready" /\ call[b].p2p = p2p_connect(a) /\ process[b] = "ready")
         => peers(a) = 1 /\ peers(b) = 1

(* A stop() or a drop of f's handle takes a step. *)
StopOrDropStep(f) ==
  /\ pc[f] \in {"Ready", "stop_wait"}
  /\ \/ pc'[f] # pc[f]
     \/ stop_result'[f] # stop_result[f]
     \/ last_rpc'[f] # last_rpc[f] /\ last_rpc'[f].op = "stop"

(* The step leaves g's child process, working directory and config as they are. *)
LeavesAlone(g) ==
  /\ process'[g] = process[g]
  /\ exit_status'[g] = exit_status[g]
  /\ config'[g] = config[g]
  /\ blocks'[g] = blocks[g]
  /\ DirEntry(datadir[g]) \in fs'
  /\ CookieFile(datadir[g]) \in fs => CookieFile(datadir[g]) \in fs'

(* f's chain has the blocks mined through f's client and no others: none when
   with_args returns, one more with each generate_to_address. *)
OwnChainOnly(f) ==
  /\ (outcome'[f] = "Ok" /\ outcome[f] # "Ok") => blocks'[f] = 0
  /\ blocks'[f] # blocks[f]
       => /\ pc[f] = "Ready"
          /\ blocks'[f] = blocks[f] + 1
          /\ last_rpc'[f].op = "generate"

(* C16 as stated: two live fixtures have distinct working directories and
   distinct rpc ports, a stop or drop of one leaves the other alone, and every
   fixture has its own chain only. *)
C16_FixturesIndependent ==
  /\ [](\A f \in Fixtures : \A g \in Fixtures \ {f} :
          (HandleAlive(f) /\ HandleAlive(g))
            => /\ datadir[f] # datadir[g]
               /\ rpc_port[f] # rpc_port[g])
  /\ [][\A f \in Fixtures : \A g \in Fixtures \ {f} :
          (StopOrDropStep(f) /\ HandleAlive(g)) => LeavesAlone(g)]_vars
  /\ [][\A f \in Fixtures : OwnChainOnly(f)]_vars

(* C16, amended: two live fixtures have distinct working directories, both in
   place, and the ports of their child processes are distinct while both
   processes listen; a stop or drop of one, also when they are connected, leaves
   the other's child process, working directory, config and chain as they are;
   a fixture launched with P2P::No has its own chain only: 0 blocks at the
   return of with_args and one more with each block it mines. *)
C16_IndependentWhileRunning ==
  /\ [](\A f \in Fixtures : \A g \in Fixtures \ {f} :
          (HandleAlive(f) /\ HandleAlive(g))
            => /\ datadir[f] # datadir[g]
               /\ DirExists(datadir[f]) /\ DirExists(datadir[g])
               /\ (process[f] \in Listening /\ process[g] \in Listening)
                    => ({rpc_port[f], p2p_socket[f]} \cap {rpc_port[g], p2p_socket[g]})
                         \subseteq {NoSocket})
  /\ [][\A f \in Fixtures : \A g \in Fixtures \ {f} :
          (StopOrDropStep(f) /\ HandleAlive(g)) => LeavesAlone(g)]_vars
  /\ [][\A f \in Fixtures : call[f].p2p = P2PNo => OwnChainOnly(f)]_vars

(* The first fixture was dropped and its daemon killed while the other fixture,
   connected to it and holding a block received from it, goes on. *)
C16_Witness ==
  \E f \in Fixtures : \E g \in Fixtures \ {f} :
    /\ pc[f] = "Dropped"
    /\ exit_status[f] = "killed"
    /\ pc[g] = "Ready"
    /\ process[g] = "ready"
    /\ call[g].p2p.tag = "Connect"
    /\ DirExists(datadir[g])
    /\ blocks[g] = 1
    /\ last_rpc[g] = NoRpc

====
